---- MODULE Spec2Model ----
(***************************************************************************)
(* Model of the Solana Blinks CLI (the `inspect` and `execute` commands of *)
(* src/src/lib/markets.ts, lines 624-703) and of the Trust Registry the    *)
(* package exports (src/unnamed/part_001, lines 81-91).                    *)
(*                                                                         *)
(* One behaviour of Spec is one run of the CLI process: a command is       *)
(* chosen, its handler runs up to each `await`, the awaited collaborator   *)
(* answers, and the process ends with an exit code.  The collaborators     *)
(* (BlinksExecutor, Wallet, the RPC connection) are the environment: every *)
(* answer they can give is a nondeterministic choice.                      *)
(*                                                                         *)
(* The module also holds the exported token table and Action URL builders  *)
(* (lines 252-454), MarketsClient.findBestYield (lines 185-200), the       *)
(* action list of an InspectResult, and the protocol commands (lines       *)
(* 705-1206), each under a specification of its own.                       *)
(***************************************************************************)
EXTENDS Integers, Sequences, FiniteSets, TLC

VARIABLES
    pc,         \* position of the command handler
    cmd,        \* "none" | "inspect" | "execute"
    url,        \* the <url> argument
    opts,       \* the options of the command (commander's opts)
    params,     \* the params map built at lines 651-656
    trusted,    \* the constant `trusted` of line 659
    blinkTx,    \* the transaction getTransaction resolved to ("none" before)
    calls,      \* log of collaborator calls and of their answers, in order
    stdout,     \* what console.log printed (one result record)
    stderr,     \* what info/error printed, in order
    settled,    \* how the promise of blinks.inspect / getTransaction settled
    requests,   \* the HTTP requests the pipeline issued, in order
    exited,     \* the process has ended
    exitCode,   \* its exit code (0 unless process.exit(1) ran)
    reg,        \* Trust Registry: lifecycle, snapshot, expiry
    now,        \* Trust Registry: the clock
    inflight,   \* Trust Registry: host-list fetches in flight
    started,    \* Trust Registry: per fetch started, the generation it started in
    completed,  \* Trust Registry: host-list fetches answered so far
    caller,     \* Trust Registry: the concurrent trust queries
    resolver,   \* URL Resolver: an input and what it resolved to
    lib         \* Library: the exported function last called, its arguments
                \* and what it returned

cliVars == <<pc, cmd, url, opts, params, trusted, blinkTx, calls, stdout,
             stderr, settled, requests, exited, exitCode>>
regVars == <<reg, now, inflight, started, completed, caller>>
vars == <<cliVars, regVars, resolver, lib>>

----------------------------------------------------------------------------
(* Inputs                                                                  *)

\* Hosts an action URL can point to: one of the trusted list, one of the
\* registry's malicious list, one in neither.
TrustedHost == "jito.dial.to"
MaliciousHost == "evil.example"
UnknownHost == "unknown.example"
Hosts == {TrustedHost, MaliciousHost, UnknownHost}

\* The static trusted host list (TRUSTED_HOSTS of lib/actions.js).
TRUSTED_HOSTS == {TrustedHost}

\* The registry's malicious host list (getMaliciousHosts of lib/registry.js).
MALICIOUS_HOSTS == {MaliciousHost}

\* Paths of an endpoint; the last one holds a percent escape.
Paths == {"/stake", "/api/v0/lend/usdc-prime/deposit", "/%41"}

\* The endpoints an action URL can name: https://<host><path>.
Urls == [host : Hosts, path : Paths]

\* A JSON object is a function from its keys to its values.
ParamKeys == {"amount", "account"}
ParamValues == {"7"}
JsonObjects == UNION {[D -> ParamValues] : D \in SUBSET ParamKeys}
EmptyObject == [k \in {} |-> "7"]

\* --amount <amount>: absent, or a string.
AmountOpts == [given : {FALSE}, value : {""}] \cup [given : {TRUE}, value : {"100"}]

\* -p/--params <json>: absent, text JSON.parse rejects, or a JSON object.
ParamsOpts ==
    [given : {FALSE}, valid : {TRUE}, obj : {EmptyObject}]
    \cup [given : {TRUE}, valid : {FALSE}, obj : {EmptyObject}]
    \cup [given : {TRUE}, valid : {TRUE}, obj : JsonObjects]

ExecuteOpts ==
    [amount : AmountOpts, dryRun : BOOLEAN, params : ParamsOpts, walletOk : BOOLEAN]

NoOpts ==
    [amount |-> [given |-> FALSE, value |-> ""], dryRun |-> FALSE,
     params |-> [given |-> FALSE, valid |-> TRUE, obj |-> EmptyObject],
     walletOk |-> TRUE]

NoUrl == << >>
NoOutput == [kind |-> "none", success |-> FALSE, trusted |-> FALSE]

Call(op) == [op |-> op, ev |-> "call"]
Ok(op) == [op |-> op, ev |-> "ok"]
Failed(op) == [op |-> op, ev |-> "fail"]

RECURSIVE Count(_, _)
Count(s, e) ==
    IF s = << >> THEN 0
    ELSE (IF Head(s) = e THEN 1 ELSE 0) + Count(Tail(s), e)

\* Position of the first occurrence of e in s, 0 when there is none.
RECURSIVE IndexFrom(_, _, _)
IndexFrom(s, e, i) ==
    IF i > Len(s) THEN 0
    ELSE IF s[i] = e THEN i ELSE IndexFrom(s, e, i + 1)

IndexOf(s, e) == IndexFrom(s, e, 1)

Called(op) == Count(calls, Call(op)) > 0

----------------------------------------------------------------------------
(* Action URL text                                                         *)

\* A URL is a sequence of tokens.  A token is a piece of text t that has been
\* percent-encoded e times: e = 0 is the text itself, e = 1 its
\* encodeURIComponent form ("https://" -> "https%3A%2F%2F"), e = 2 the
\* encoding of that ("%" -> "%25"), and so on.
Tok(t, e) == <<t, e>>
Text(tok) == tok[1]
Level(tok) == tok[2]

HttpsTok == Tok("https://", 0)
HttpTok == Tok("http://", 0)
SolanaActionTok == Tok("solana-action:", 0)
BlinkTok == Tok("blink:", 0)
DialHostTok == Tok("dial.to", 0)
ActionQueryTok == Tok("/?action=", 0)
ProtocolMarkers == {SolanaActionTok, BlinkTok}

\* A host name has no character that percent-encoding touches.
\* Hosts of the protocol endpoints the protocol commands post to.
ProtocolHosts ==
    {"kamino.dial.to", "worker.jup.ag", "lulo.dial.to", "app.drift.trade",
     "sanctum.dial.to", "share.raydium.io"}

HostTexts == Hosts \cup {"dial.to"} \cup ProtocolHosts

\* encodeURIComponent on one token
Encode(tok) ==
    IF Text(tok) \in HostTexts THEN tok ELSE Tok(Text(tok), Level(tok) + 1)

\* decodeURIComponent on one token: one level of escapes is removed, text
\* without escapes is left as it is.
Decode(tok) == IF Level(tok) > 0 THEN Tok(Text(tok), Level(tok) - 1) ELSE tok

EncodeAll(s) == [i \in DOMAIN s |-> Encode(s[i])]
DecodeAll(s) == [i \in DOMAIN s |-> Decode(s[i])]

\* The path "/%41" is the text "/A" with its letter escaped once.
PathTok(p) == IF p = "/%41" THEN Tok("/A", 1) ELSE Tok(p, 0)
HasEscape(E) == Level(PathTok(E.path)) > 0

\* https://E for an endpoint E
Plain(E) == <<HttpsTok, Tok(E.host, 0), PathTok(E.path)>>

\* https://dial.to/?action=
DialPrefix == <<HttpsTok, DialHostTok, ActionQueryTok>>

\* The ways a caller can write an endpoint down.
AcceptedForms ==
    {"https", "solana-action", "blink", "dial-raw", "dial-encoded",
     "dial-solana-action"}
RejectedForms == {"http", "solana-action-http", "dial-dial", "ftp"}
NestedForms == {"solana-action-dial"}
Forms == AcceptedForms \cup RejectedForms \cup NestedForms

Raw(form, E) ==
    CASE form = "https" -> Plain(E)
      [] form = "solana-action" -> <<SolanaActionTok>> \o Plain(E)
      [] form = "blink" -> <<BlinkTok>> \o Plain(E)
      [] form = "dial-raw" -> DialPrefix \o Plain(E)
      [] form = "dial-encoded" -> DialPrefix \o EncodeAll(Plain(E))
      [] form = "dial-solana-action" ->
            DialPrefix \o <<SolanaActionTok>> \o Plain(E)
      [] form = "http" -> <<HttpTok>> \o Tail(Plain(E))
      [] form = "solana-action-http" ->
            <<SolanaActionTok, HttpTok>> \o Tail(Plain(E))
      [] form = "dial-dial" ->
            DialPrefix \o EncodeAll(DialPrefix \o EncodeAll(Plain(E)))
      [] form = "solana-action-dial" ->
            <<SolanaActionTok>> \o DialPrefix \o Plain(E)
      [] form = "ftp" -> <<Tok("ftp://", 0)>> \o Tail(Plain(E))

RawUrls == {Raw(f, E) : f \in Forms, E \in Urls}

\* The endpoints and forms a raw URL was written from.
WrittenAs(raw) == {fe \in Forms \X Urls : Raw(fe[1], fe[2]) = raw}

----------------------------------------------------------------------------
(* URL Resolver (parseActionUrl)                                           *)

InvalidUrlKind == "InvalidUrlKind"
Resolved(s, hops) == [ok |-> TRUE, url |-> s, err |-> "", hops |-> hops]
Rejected(hops) == [ok |-> FALSE, url |-> << >>, err |-> InvalidUrlKind, hops |-> hops]
NotResolved == [ok |-> FALSE, url |-> << >>, err |-> "", hops |-> 0]

\* A parseable HTTPS URL: the scheme, a host, and whatever follows.
IsHttpsUrl(s) ==
    /\ Len(s) >= 2
    /\ s[1] = HttpsTok
    /\ Text(s[2]) \in HostTexts
    /\ Level(s[2]) = 0

\* The result of a transformation is validated again.
Validate_lax(s, hops) == IF Len(s) >= 2 THEN Resolved(s, hops) ELSE Rejected(hops)

Validate(s, hops) == IF IsHttpsUrl(s) THEN Resolved(s, hops) ELSE Rejected(hops)

HasMarker(s) == Len(s) >= 1 /\ s[1] \in ProtocolMarkers

IsInterstitial(s) == Len(s) > 3 /\ SubSeq(s, 1, 3) = DialPrefix

\* The action query parameter of an interstitial link, decoded once.
ActionParam_twice(s) == DecodeAll(DecodeAll(SubSeq(s, 4, Len(s))))

ActionParam(s) == DecodeAll(SubSeq(s, 4, Len(s)))

\* How many interstitial hops a resolution may follow.
MaxHops == 1

\* Fixed priority: protocol marker, then interstitial, then bare URL; one
\* transformation is applied and its result validated.  Only the interstitial
\* rule resolves its result again, and only MaxHops times.
RECURSIVE ResolveAt_unbounded(_, _)
ResolveAt_unbounded(s, hops) ==
    IF HasMarker(s) THEN Validate(Tail(s), hops)
    ELSE IF IsInterstitial(s)
         THEN ResolveAt_unbounded(ActionParam(s), hops + 1)
         ELSE Validate(s, hops)

RECURSIVE ResolveAt(_, _)
ResolveAt(s, hops) ==
    IF HasMarker(s) THEN Validate(Tail(s), hops)
    ELSE IF IsInterstitial(s)
         THEN IF hops >= MaxHops THEN Rejected(hops)
              ELSE ResolveAt(ActionParam(s), hops + 1)
         ELSE Validate(s, hops)

parseActionUrl(s) == ResolveAt(s, 0)

\* The host of a canonical URL
HostOf(s) == Text(s[2])


----------------------------------------------------------------------------
(* The collaborators of the command handlers                               *)

\* Object.assign(a, b)
Overlay(a, b) ==
    [k \in DOMAIN a \cup DOMAIN b |-> IF k \in DOMAIN b THEN b[k] ELSE a[k]]

\* Wallet.fromEnv().address
WalletAddress == "WalletAddr1111"

\* BlinksExecutor.isTrustedHost(url): boolean.  It is synchronous (line 659
\* does not await it), so it reads the static trusted list.  The host it
\* looks up is the host of the canonical URL; a URL that does not resolve is
\* not trusted.
isTrustedHost_raw(u) == IsHttpsUrl(u) /\ HostOf(u) \in TRUSTED_HOSTS

isTrustedHost(u) ==
    LET r == parseActionUrl(u)
    IN  r.ok /\ HostOf(r.url) \in TRUSTED_HOSTS

\* The three-way status of a host against the host lists.
HostStatus(h) ==
    IF h \in MALICIOUS_HOSTS THEN "Malicious"
    ELSE IF h \in TRUSTED_HOSTS THEN "Trusted" ELSE "Unknown"

\* The status of the host an action URL resolves to.
StatusOf(u) ==
    LET r == parseActionUrl(u)
    IN  IF r.ok THEN HostStatus(HostOf(r.url)) ELSE "Unresolved"

\* What `await blinks.getTransaction(...)` can settle with.
TxOutcomes == {"ok", "ActionFetchError", "ActionTimeoutError", "ActionTransactionError"}

\* What `await blinks.simulate(blinkTx)` can settle with: a result with
\* success true, a result with success false, or a rejection.
SimOutcomes == {"success", "failed", "throws"}

\* What `await blinks.signAndSend(...)` can settle with.
SendOutcomes == {"confirmed", "throws"}

\* What the GET of blinks.inspect can settle with.
GetOutcomes == {"ok", "ActionFetchError", "ActionTimeoutError", "ActionSchemaError"}

NotSettled == [done |-> FALSE, ok |-> FALSE, err |-> ""]

\* An HTTP request of the pipeline
Request(method, u, body) == [method |-> method, url |-> u, body |-> body]

\* The JSON body of the transaction request: { account, ...params }.  A later
\* key of an object literal replaces an earlier one of the same name.
PostBody(account, p) == Overlay([k \in {"account"} |-> account], p)

----------------------------------------------------------------------------
(* execute <url>, lines 639-703                                            *)

\* Line 653: if (opts.amount) params.amount = opts.amount
AmountParams(o) ==
    IF o.amount.given /\ o.amount.value # ""
    THEN [k \in {"amount"} |-> o.amount.value]
    ELSE EmptyObject

\* Lines 652-656: the params map
BuildParams_amountWins(o) ==
    IF o.params.given THEN Overlay(o.params.obj, AmountParams(o))
    ELSE AmountParams(o)

BuildParams(o) ==
    IF o.params.given THEN Overlay(AmountParams(o), o.params.obj)
    ELSE AmountParams(o)

\* Lines 659-662: what the handler does with the trust flag.  It warns when
\* the host is not trusted and goes on in every case.
TrustGate_blocking(t) == [proceed |-> t, warn |-> ~t]

TrustGate(t) == [proceed |-> TRUE, warn |-> ~t]

\* Line 666: an awaited call that rejects throws, so the handler goes on with
\* the transaction only when getTransaction resolved.
TxUsable_swallow(res) == TRUE

TxUsable(res) == res = "ok"

\* Lines 668-689: the collaborator called once the transaction is there.
AfterTransaction_submit(dryRun) == "signAndSend"

AfterTransaction_simulate(dryRun) == "simulate"

AfterTransaction(dryRun) == IF dryRun THEN "simulate" ELSE "signAndSend"

\* Lines 676 and 687: the `trusted` field of the printed result is the flag
\* computed at line 659, whatever the step before the print returned.
ResultTrusted_byOutcome(t, res) == t /\ res \in {"success", "confirmed"}

ResultTrusted(t, res) == t

\* Lines 659 and 666: the collaborator calls of the synchronous part of the
\* handler, in the order it makes them.
StartCalls_reordered ==
    <<Call("getTransaction"), Call("isTrustedHost"), Ok("isTrustedHost")>>

StartCalls ==
    <<Call("isTrustedHost"), Ok("isTrustedHost"), Call("getTransaction")>>

\* Lines 690-702 (and 633-636 for inspect): the catch block.  It prints the
\* message, the details when the error carries some, and exits with 1.
\* `log` and `errlog` are the call log and stderr at the throw.
ErrorLines(err) ==
    IF err = "ActionFetchError" THEN <<err, "details">> ELSE <<err>>

Catch_retry(step, err, log, errlog) ==
    IF step = "getTransaction" /\ Count(log, Call("getTransaction")) < 2
    THEN /\ pc' = "getTransaction"
         /\ calls' = Append(log, Call("getTransaction"))
         /\ stderr' = errlog
         /\ UNCHANGED <<exited, exitCode>>
    ELSE /\ pc' = "done"
         /\ calls' = log
         /\ stderr' = errlog \o ErrorLines(err)
         /\ exited' = TRUE
         /\ exitCode' = 1

Catch(step, err, log, errlog) ==
    /\ pc' = "done"
    /\ calls' = log
    /\ stderr' = errlog \o ErrorLines(err)
    /\ exited' = TRUE
    /\ exitCode' = 1

\* Lines 645-656: what the handler throws before its first collaborator call:
\* Wallet.fromEnv() throws when the wallet cannot be loaded, JSON.parse throws
\* on a --params text that is not JSON; "" when neither throws.
RequestError_lenient(o) ==
    IF ~o.walletOk THEN "WalletError" ELSE ""

RequestError(o) ==
    IF ~o.walletOk THEN "WalletError"
    ELSE IF o.params.given /\ ~o.params.valid THEN "SyntaxError"
    ELSE ""

\* Lines 645-666: the handler up to its first await.
ExecuteStart(u, o) ==
    /\ pc = "idle"
    /\ cmd' = "execute"
    /\ url' = u
    /\ opts' = o
    /\ UNCHANGED <<blinkTx, stdout, settled, requests, regVars, resolver, lib>>
    /\ IF RequestError(o) = "WalletError"
       THEN /\ Catch("Wallet.fromEnv", "WalletError", calls, stderr)
            /\ UNCHANGED <<params, trusted>>
       ELSE IF RequestError(o) = "SyntaxError"
       THEN /\ params' = AmountParams(o)
            /\ Catch("JSON.parse", "SyntaxError", calls, stderr)
            /\ UNCHANGED trusted
       ELSE LET t == isTrustedHost(u)
                gate == TrustGate(t)
                warning == IF gate.warn THEN <<"Warning: not a trusted host">> ELSE << >>
            IN  /\ params' = BuildParams(o)
                /\ trusted' = t
                /\ IF gate.proceed
                   THEN /\ pc' = "getTransaction"
                        /\ calls' = calls \o StartCalls
                        /\ stderr' = stderr \o warning \o <<"Fetching transaction">>
                        /\ UNCHANGED <<exited, exitCode>>
                   ELSE Catch("isTrustedHost", "UntrustedHostBlocked",
                              calls \o <<Call("isTrustedHost"), Failed("isTrustedHost")>>,
                              stderr \o warning)

\* BlinksExecutor.getTransaction(url, account, params): the URL is resolved,
\* and the POST goes to the canonical URL with the body { account, ...params }.
\* A URL that does not resolve rejects the promise before any request.
BlinksGetTransaction ==
    /\ pc = "getTransaction"
    /\ pc' = "awaitTx"
    /\ LET r == parseActionUrl(url)
       IN  IF r.ok
           THEN /\ requests' = Append(requests,
                        Request("POST", r.url, PostBody(WalletAddress, params)))
                /\ settled' = NotSettled
           ELSE /\ settled' = [done |-> TRUE, ok |-> FALSE, err |-> r.err]
                /\ UNCHANGED requests
    /\ UNCHANGED <<cmd, url, opts, params, trusted, blinkTx, calls, stdout,
                   stderr, exited, exitCode, regVars, resolver, lib>>

\* What the promise of getTransaction can settle with: the rejection of the
\* resolver, or else whatever the POST brings.
TxAnswers == TxOutcomes \cup {InvalidUrlKind}
TxAnswer(res) == IF settled.done THEN res = settled.err ELSE res \in TxOutcomes

\* Lines 666-681: getTransaction settles; the handler calls simulate or
\* signAndSend, or the rejection reaches the catch block.
GetTransactionReturn(res) ==
    /\ pc = "awaitTx"
    /\ TxAnswer(res)
    /\ UNCHANGED <<cmd, url, opts, params, trusted, stdout, settled, requests,
                   regVars, resolver, lib>>
    /\ LET answer == IF res = "ok" THEN Ok("getTransaction") ELSE Failed("getTransaction")
           next == AfterTransaction(opts.dryRun)
       IN  IF TxUsable(res)
           THEN /\ blinkTx' = "tx"
                /\ calls' = calls \o <<answer, Call(next)>>
                /\ pc' = IF next = "simulate" THEN "awaitSim" ELSE "awaitSend"
                /\ stderr' = IF next = "simulate" THEN stderr
                             ELSE Append(stderr, "Signing and sending transaction")
                /\ UNCHANGED <<exited, exitCode>>
           ELSE /\ Catch("getTransaction", res, Append(calls, answer), stderr)
                /\ UNCHANGED blinkTx

\* Lines 670-677: simulate settles.  A result is printed whatever its
\* success field says, and the handler returns; a rejection is caught.
SimulateReturn(res) ==
    /\ pc = "awaitSim"
    /\ UNCHANGED <<cmd, url, opts, params, trusted, blinkTx, settled, requests,
                   regVars, resolver, lib>>
    /\ IF res = "throws"
       THEN /\ Catch("simulate", "SimulationError",
                     Append(calls, Failed("simulate")), stderr)
            /\ UNCHANGED stdout
       ELSE /\ stdout' = [kind |-> "simulation", success |-> (res = "success"),
                          trusted |-> ResultTrusted(trusted, res)]
            /\ calls' = Append(calls, [op |-> "simulate",
                                       ev |-> IF res = "success" THEN "ok" ELSE "simfail"])
            /\ pc' = "done"
            /\ exited' = TRUE
            /\ UNCHANGED <<stderr, exitCode>>

\* Lines 681-688: signAndSend settles.
SignAndSendReturn(res) ==
    /\ pc = "awaitSend"
    /\ UNCHANGED <<cmd, url, opts, params, trusted, blinkTx, settled, requests,
                   regVars, resolver, lib>>
    /\ IF res = "throws"
       THEN /\ Catch("signAndSend", "SendTransactionError",
                     Append(calls, Failed("signAndSend")), stderr)
            /\ UNCHANGED stdout
       ELSE /\ stdout' = [kind |-> "signature", success |-> TRUE,
                          trusted |-> ResultTrusted(trusted, res)]
            /\ calls' = Append(calls, Ok("signAndSend"))
            /\ stderr' = Append(stderr, "Transaction confirmed!")
            /\ pc' = "done"
            /\ exited' = TRUE
            /\ UNCHANGED exitCode


----------------------------------------------------------------------------
(* inspect <url>, lines 624-637                                            *)

\* Lines 627-631: the handler up to `await blinks.inspect(url)`.  It makes no
\* trust decision of its own.
InspectStart_gated(u) ==
    /\ pc = "idle"
    /\ cmd' = "inspect"
    /\ url' = u
    /\ UNCHANGED <<opts, params, trusted, blinkTx, stdout, settled, requests,
                   regVars, resolver, lib>>
    /\ IF isTrustedHost(u)
       THEN /\ pc' = "awaitInspect"
            /\ calls' = Append(calls, Call("inspect"))
            /\ UNCHANGED <<stderr, exited, exitCode>>
       ELSE Catch("isTrustedHost", "UntrustedHostBlocked", calls, stderr)

InspectStart(u) ==
    /\ pc = "idle"
    /\ cmd' = "inspect"
    /\ url' = u
    /\ pc' = "awaitInspect"
    /\ calls' = Append(calls, Call("inspect"))
    /\ UNCHANGED <<opts, params, trusted, blinkTx, stdout, stderr, settled,
                   requests, exited, exitCode, regVars, resolver, lib>>

\* BlinksExecutor.inspect, steps 1-3: the URL is resolved, then the trust
\* flag of the host, then the GET of the metadata on the canonical URL; a
\* malicious host is not refused.  A URL that does not resolve rejects the
\* promise before any request.
BlinksInspect ==
    /\ pc = "awaitInspect"
    /\ LET r == parseActionUrl(url)
       IN  IF r.ok
           THEN /\ trusted' = isTrustedHost(url)
                /\ calls' = Append(calls, Call("GET"))
                /\ requests' = Append(requests, Request("GET", r.url, EmptyObject))
                /\ pc' = "awaitGet"
                /\ UNCHANGED settled
           ELSE /\ settled' = [done |-> TRUE, ok |-> FALSE, err |-> r.err]
                /\ pc' = "inspectSettled"
                /\ UNCHANGED <<trusted, calls, requests>>
    /\ UNCHANGED <<cmd, url, opts, params, blinkTx, stdout, stderr,
                   exited, exitCode, regVars, resolver, lib>>

\* BlinksExecutor.inspect, steps 3-5: the GET settles and the promise of
\* inspect settles the same way; no error is swallowed.
BlinksInspectSettle(res) ==
    /\ pc = "awaitGet"
    /\ settled' = [done |-> TRUE, ok |-> (res = "ok"),
                   err |-> IF res = "ok" THEN "" ELSE res]
    /\ calls' = Append(calls, IF res = "ok" THEN Ok("GET") ELSE Failed("GET"))
    /\ pc' = "inspectSettled"
    /\ UNCHANGED <<cmd, url, opts, params, trusted, blinkTx, stdout, stderr,
                   requests, exited, exitCode, regVars, resolver, lib>>

\* Lines 631-636: the result is printed, or the rejection is caught.
InspectReturn ==
    /\ pc = "inspectSettled"
    /\ UNCHANGED <<cmd, url, opts, params, trusted, blinkTx, settled, requests,
                   regVars, resolver, lib>>
    /\ IF settled.ok
       THEN /\ stdout' = [kind |-> "inspect", success |-> TRUE, trusted |-> trusted]
            /\ calls' = Append(calls, Ok("inspect"))
            /\ pc' = "done"
            /\ exited' = TRUE
            /\ UNCHANGED <<stderr, exitCode>>
       ELSE /\ Catch("inspect", settled.err, Append(calls, Failed("inspect")), stderr)
            /\ UNCHANGED stdout


----------------------------------------------------------------------------
(* Trust Registry (lib/registry.js; exported at src/unnamed/part_001,      *)
(* lines 81-91).  Its lifecycle is Uninitialized -> Loading -> Ready; one  *)
(* host-list fetch serves every query that arrives while it is in flight.  *)

NumCallers == 2
MaxTime == 3
MaxFetches == 3
TTL == 2

Callers == 1 .. NumCallers

\* A snapshot is one whole host list.  Each entry carries the number of the
\* fetch that delivered it; 0 is the built-in static list.
StaticSnapshot == [h \in Hosts |-> 0]

\* The snapshot a successful fetch number v installs: every entry is replaced
\* in one step.
NewSnapshot_partial(old, v) ==
    [h \in Hosts |-> IF h = TrustedHost THEN v ELSE old[h]]

NewSnapshot(old, v) == [h \in Hosts |-> v]

\* servedBy: the snapshot version or the fetch that answers the query;
\* view: the snapshot the answer is read from; during: the refresh that was
\* in flight when the answer was given without waiting, 0 when none was.
IdleCaller == [pc |-> "idle", servedBy |-> 0, view |-> StaticSnapshot, during |-> 0]

Expired(r, t) == r.state = "Ready" /\ t >= r.expiry

\* The single-flight guard: a query starts a host-list fetch when there is no
\* snapshot yet, or when the snapshot has expired and no refresh is in flight.
StartsFetch_stampede(r, t, n) == r.state # "Ready" \/ t >= r.expiry

StartsFetch(r, t, n) ==
    \/ r.state = "Uninitialized"
    \/ Expired(r, t) /\ n = 0

\* A query waits for the fetch when there is no snapshot to answer from, or
\* when the registry is configured to block on a refresh; otherwise it is
\* answered at once from the snapshot, stale or not.
MustWait(r, t) == r.state # "Ready" \/ (Expired(r, t) /\ r.blocking)

\* The registry after fetch number v settled at time t.  On success the whole
\* snapshot is replaced; on failure the registry keeps the last-known-good
\* snapshot (the built-in static list when there is none) and is Ready.
AfterFetch_reset(r, ok, v, t) ==
    IF ok
    THEN [r EXCEPT !.state = "Ready", !.version = v, !.expiry = t + TTL,
                   !.snapshot = NewSnapshot(r.snapshot, v)]
    ELSE [r EXCEPT !.state = "Uninitialized", !.version = 0, !.expiry = 0,
                   !.snapshot = StaticSnapshot]

AfterFetch(r, ok, v, t) ==
    IF ok
    THEN [r EXCEPT !.state = "Ready", !.version = v, !.expiry = t + TTL,
                   !.snapshot = NewSnapshot(r.snapshot, v)]
    ELSE [r EXCEPT !.state = "Ready", !.expiry = t + TTL]

\* The answer a waiting query gets when the fetch settles: the snapshot the
\* registry then holds, also when the fetch failed.
AnswerWaiting_reject(c, ok, r) ==
    [pc |-> IF ok THEN "answered" ELSE "rejected", servedBy |-> c.servedBy,
     view |-> r.snapshot, during |-> 0]

AnswerWaiting(c, ok, r) ==
    [pc |-> "answered", servedBy |-> c.servedBy, view |-> r.snapshot, during |-> 0]

\* isHostTrusted / isHostMalicious: one trust query of caller c.
Query(c) ==
    /\ caller[c].pc = "idle"
    /\ LET start == StartsFetch(reg, now, inflight)
           id == Len(started) + (IF start THEN 1 ELSE 0)
       IN  /\ start => Len(started) < MaxFetches
           /\ started' = IF start THEN Append(started, completed) ELSE started
           /\ inflight' = IF start THEN inflight + 1 ELSE inflight
           /\ reg' = IF reg.state = "Uninitialized"
                     THEN [reg EXCEPT !.state = "Loading"] ELSE reg
           /\ caller' = [caller EXCEPT ![c] =
                            IF MustWait(reg, now)
                            THEN [pc |-> "waiting", servedBy |-> id,
                                  view |-> StaticSnapshot, during |-> 0]
                            ELSE [pc |-> "answered", servedBy |-> reg.version,
                                  view |-> reg.snapshot,
                                  during |-> IF inflight > 0 \/ start
                                             THEN id ELSE 0]]
    /\ UNCHANGED <<now, completed, cliVars, resolver, lib>>

\* fetchRegistry settles.  On success the whole snapshot is replaced; on
\* failure the registry keeps the last-known-good snapshot (the built-in
\* defaults, version 0, when there is none).  Every waiting query is answered.
FetchReturn(ok) ==
    /\ inflight > 0
    /\ inflight' = inflight - 1
    /\ completed' = completed + 1
    /\ reg' = AfterFetch(reg, ok, completed + 1, now)
    /\ caller' = [c \in Callers |->
                    IF caller[c].pc = "waiting"
                    THEN AnswerWaiting(caller[c], ok, reg')
                    ELSE caller[c]]
    /\ UNCHANGED <<now, started, cliVars, resolver, lib>>

\* The caller takes its answer; it may query again.
Answered(c) ==
    /\ caller[c].pc = "answered"
    /\ caller' = [caller EXCEPT ![c] = IdleCaller]
    /\ UNCHANGED <<reg, now, inflight, started, completed, cliVars, resolver, lib>>

\* clearRegistryCache: the cached snapshot is dropped, and the next query
\* loads the host list again.  With nothing cached there is nothing to drop.
ClearRegistryCache ==
    /\ reg.state = "Ready"
    /\ reg' = [reg EXCEPT !.state = "Uninitialized", !.version = 0,
                          !.expiry = 0, !.snapshot = StaticSnapshot]
    /\ UNCHANGED <<now, inflight, started, completed, caller, cliVars, resolver, lib>>

\* Time passes.
Tick ==
    /\ now < MaxTime
    /\ now' = now + 1
    /\ UNCHANGED <<reg, inflight, started, completed, caller, cliVars, resolver, lib>>

----------------------------------------------------------------------------
(* The resolver on its own                                                 *)

IdleResolver ==
    [phase |-> "idle", input |-> << >>, first |-> NotResolved, second |-> NotResolved]

\* parseActionUrl(x)
ResolveInput(x) ==
    /\ resolver.phase = "idle"
    /\ resolver' = [resolver EXCEPT !.phase = "resolved", !.input = x,
                                    !.first = parseActionUrl(x)]
    /\ UNCHANGED <<cliVars, regVars, lib>>

\* parseActionUrl(parseActionUrl(x))
ResolveAgain ==
    /\ resolver.phase = "resolved"
    /\ resolver.first.ok
    /\ resolver' = [resolver EXCEPT !.phase = "resolvedAgain",
                                    !.second = parseActionUrl(resolver.first.url)]
    /\ UNCHANGED <<cliVars, regVars, lib>>

----------------------------------------------------------------------------
(* The library: token table and Action URL builders                        *)

\* JavaScript values the exported functions are called with.
Undefined == <<"undefined">>
Str(s) == <<"string", s>>
Num(n) == <<"number", n>>
IsStr(v) == v[1] = "string"

\* What a call does: it returns a value or throws.
Returned(v) == <<"return", v>>
Thrown(err) == <<"throw", err>>

\* if (v) / v ? a : b
Truthy(v) ==
    CASE v[1] = "undefined" -> FALSE
      [] v[1] = "string" -> v[2] # ""
      [] v[1] = "number" -> v[2] # 0
      [] v[1] = "array" -> TRUE

\* Decimal text of the numbers the model calls the builders with.
NumberText(n) == <<"0", "1", "2", "3">>[n + 1]

\* `${v}` in a template literal
ToText(v) ==
    CASE v[1] = "undefined" -> "undefined"
      [] v[1] = "string" -> v[2]
      [] v[1] = "number" -> NumberText(v[2])

\* A table of the source as its entries, in order; a lookup of a key the
\* table holds, and the test the source writes as `if (TABLE[key])`.
Has(table, k) == \E i \in 1 .. Len(table) : table[i][1] = k
Lookup(table, k) == table[CHOOSE i \in 1 .. Len(table) : table[i][1] = k][2]
Keys(table) == {table[i][1] : i \in 1 .. Len(table)}

COMMON_TOKENS == <<
    <<"SOL", "So11111111111111111111111111111111111111112">>,
    <<"USDC", "EPjFWdd5AufqSSqeM2qN1xzybapC8G4wEGGkZwyTDt1v">>,
    <<"USDT", "Es9vMFrzaCERmJfrF4H2FYD4KCoNkY11McCe8BenwNYB">>,
    <<"PYUSD", "2b1kV6DkPAnxd5ixfnxCpjxmKwqjjaYmCZfHsFu24GXo">>,
    <<"UXD", "7kbnvuGBxxj8AG9qp8Scn56muWGaRaFqxg1FsRp3PaFT">>,
    <<"jitoSOL", "J1toso1uCk3RLmjorhTtrVwY9HJ7X8V9yYac6Y7kGCPn">>,
    <<"mSOL", "mSoLzYCxHdYgdzU16g5QSh3i5K3z3KZK7ytfqcJm7So">>,
    <<"bSOL", "bSo13r4TkiE4KumL71LsHTPpL2euBYLFx6h9HP3piy1">>,
    <<"INF", "5oVNBeEEQvYi1cX3ir8Dx5n1P7pdxydbGF2X4TxVusJm">>,
    <<"JUP", "JUPyiwrYJFskUPiHa7hkeR8VUtAeFoSYbKedZNsDvCN">>,
    <<"RAY", "4k3Dyjzvzp8eMZWUXbBCjEvwSkkk59S5iCNLY3QrkX6R">>,
    <<"ORCA", "orcaEKTdK7LKz57vaAYr9QeNsVEPfiu6QeMU1kektZE">>,
    <<"MNDE", "MNDEFzGvMt87ueuHvVU9VcTqsAP5b3fTGPsHuuPA5ey">>,
    <<"JLP", "27G8MtK7VtTcCHkpASjSDdkWWYfoqT6ggEuKidVJidD4">>,
    <<"BONK", "DezXAZ8z7PnrnRJjz3wXBoRgixCa6xjnB7YaB1pPB263">>,
    <<"WIF", "EKpQGSJtjMFqKZ9KQanSqYXRcF8fBopzLHYxdM65zcjm">>,
    <<"POPCAT", "7GCihgDB8fe6KNjn2MYtkzZcRjQy3t9GHdC8uHYmW2hr">>,
    <<"MYRO", "HhJpBhRRn4g56VsyLuT8DL5Bv31HkXqsrahTTUCZeZg4">>,
    <<"PYTH", "HZ1JovNiVvGrGNiiYvEozEVgZ58xaU3RKwX8eACQBCt3">>,
    <<"HNT", "hntyVP6YFm1Hg25TN9WGLqM12b8TQmcknKrdu1oxWux">>,
    <<"RENDER", "rndrizKT3MK1iimdxRdWabcF7Zg7AR5T4nud4EkHBof">>,
    <<"W", "85VBFQZC9TZkfaptBWjvUw7YbZjy52A6mjtPGjstQAmQ">> >>

KAMINO_LEND_VAULTS == <<
    <<"usdc-prime", "USDC">>,
    <<"usdc-main", "USDC">>,
    <<"sol-main", "SOL">>,
    <<"sol-jlp", "SOL">>,
    <<"jlp-core", "JLP">>,
    <<"usdt-main", "USDT">>,
    <<"jitosol-main", "jitoSOL">>,
    <<"msol-main", "mSOL">>,
    <<"bsol-main", "bSOL">>,
    <<"pyusd-main", "PYUSD">> >>

\* String.prototype.toUpperCase on the texts the model uses: the texts that
\* hold a lower-case letter and what they become; any other text is already
\* upper case.
UpperCased == <<
    <<"jitoSOL", "JITOSOL">>,
    <<"mSOL", "MSOL">>,
    <<"bSOL", "BSOL">>,
    <<"sol", "SOL">>,
    <<"usdc", "USDC">>,
    <<"jitosol", "JITOSOL">>,
    <<"So11111111111111111111111111111111111111112", "SO11111111111111111111111111111111111111112">>,
    <<"EPjFWdd5AufqSSqeM2qN1xzybapC8G4wEGGkZwyTDt1v", "EPJFWDD5AUFQSSQEM2QN1XZYBAPC8G4WEGGKZWYTDT1V">>,
    <<"Es9vMFrzaCERmJfrF4H2FYD4KCoNkY11McCe8BenwNYB", "ES9VMFRZACERMJFRF4H2FYD4KCONKY11MCCE8BENWNYB">>,
    <<"2b1kV6DkPAnxd5ixfnxCpjxmKwqjjaYmCZfHsFu24GXo", "2B1KV6DKPANXD5IXFNXCPJXMKWQJJAYMCZFHSFU24GXO">>,
    <<"7kbnvuGBxxj8AG9qp8Scn56muWGaRaFqxg1FsRp3PaFT", "7KBNVUGBXXJ8AG9QP8SCN56MUWGARAFQXG1FSRP3PAFT">>,
    <<"J1toso1uCk3RLmjorhTtrVwY9HJ7X8V9yYac6Y7kGCPn", "J1TOSO1UCK3RLMJORHTTRVWY9HJ7X8V9YYAC6Y7KGCPN">>,
    <<"mSoLzYCxHdYgdzU16g5QSh3i5K3z3KZK7ytfqcJm7So", "MSOLZYCXHDYGDZU16G5QSH3I5K3Z3KZK7YTFQCJM7SO">>,
    <<"bSo13r4TkiE4KumL71LsHTPpL2euBYLFx6h9HP3piy1", "BSO13R4TKIE4KUML71LSHTPPL2EUBYLFX6H9HP3PIY1">>,
    <<"5oVNBeEEQvYi1cX3ir8Dx5n1P7pdxydbGF2X4TxVusJm", "5OVNBEEEQVYI1CX3IR8DX5N1P7PDXYDBGF2X4TXVUSJM">>,
    <<"JUPyiwrYJFskUPiHa7hkeR8VUtAeFoSYbKedZNsDvCN", "JUPYIWRYJFSKUPIHA7HKER8VUTAEFOSYBKEDZNSDVCN">>,
    <<"4k3Dyjzvzp8eMZWUXbBCjEvwSkkk59S5iCNLY3QrkX6R", "4K3DYJZVZP8EMZWUXBBCJEVWSKKK59S5ICNLY3QRKX6R">>,
    <<"orcaEKTdK7LKz57vaAYr9QeNsVEPfiu6QeMU1kektZE", "ORCAEKTDK7LKZ57VAAYR9QENSVEPFIU6QEMU1KEKTZE">>,
    <<"MNDEFzGvMt87ueuHvVU9VcTqsAP5b3fTGPsHuuPA5ey", "MNDEFZGVMT87UEUHVVU9VCTQSAP5B3FTGPSHUUPA5EY">>,
    <<"27G8MtK7VtTcCHkpASjSDdkWWYfoqT6ggEuKidVJidD4", "27G8MTK7VTTCCHKPASJSDDKWWYFOQT6GGEUKIDVJIDD4">>,
    <<"DezXAZ8z7PnrnRJjz3wXBoRgixCa6xjnB7YaB1pPB263", "DEZXAZ8Z7PNRNRJJZ3WXBORGIXCA6XJNB7YAB1PPB263">>,
    <<"EKpQGSJtjMFqKZ9KQanSqYXRcF8fBopzLHYxdM65zcjm", "EKPQGSJTJMFQKZ9KQANSQYXRCF8FBOPZLHYXDM65ZCJM">>,
    <<"7GCihgDB8fe6KNjn2MYtkzZcRjQy3t9GHdC8uHYmW2hr", "7GCIHGDB8FE6KNJN2MYTKZZCRJQY3T9GHDC8UHYMW2HR">>,
    <<"HhJpBhRRn4g56VsyLuT8DL5Bv31HkXqsrahTTUCZeZg4", "HHJPBHRRN4G56VSYLUT8DL5BV31HKXQSRAHTTUCZEZG4">>,
    <<"HZ1JovNiVvGrGNiiYvEozEVgZ58xaU3RKwX8eACQBCt3", "HZ1JOVNIVVGRGNIIYVEOZEVGZ58XAU3RKWX8EACQBCT3">>,
    <<"hntyVP6YFm1Hg25TN9WGLqM12b8TQmcknKrdu1oxWux", "HNTYVP6YFM1HG25TN9WGLQM12B8TQMCKNKRDU1OXWUX">>,
    <<"rndrizKT3MK1iimdxRdWabcF7Zg7AR5T4nud4EkHBof", "RNDRIZKT3MK1IIMDXRDWABCF7ZG7AR5T4NUD4EKHBOF">>,
    <<"85VBFQZC9TZkfaptBWjvUw7YbZjy52A6mjtPGjstQAmQ", "85VBFQZC9TZKFAPTBWJVUW7YBZJY52A6MJTPGJSTQAMQ">>,
    <<"NotAToken11111111111111111111111111111111", "NOTATOKEN11111111111111111111111111111111">> >>

toUpperCase(s) == IF Has(UpperCased, s) THEN Lookup(UpperCased, s) ELSE s

\* resolveTokenMint(tokenOrMint), on the text of a string argument
resolveTokenMint(s) ==
    LET upper == toUpperCase(s)
    IN  IF Has(COMMON_TOKENS, upper) THEN Lookup(COMMON_TOKENS, upper) ELSE s

\* A literal piece of a template literal, and an interpolated value.
Lit(text) == Tok(text, 0)
Interp(v) == Tok(ToText(v), 0)

JupiterBase == <<HttpsTok, Lit("worker.jup.ag"), Lit("/blinks/swap")>>

\* buildJupiterSwapUrl(inputToken, outputToken, amount?)
buildJupiterSwapUrl(inputToken, outputToken, amount) ==
    IF ~IsStr(inputToken) \/ ~IsStr(outputToken)
    THEN Thrown("TypeError")
    ELSE
    LET inputUpper == toUpperCase(inputToken[2])
        outputUpper == toUpperCase(outputToken[2])
    IN  IF Has(COMMON_TOKENS, inputUpper) /\ Has(COMMON_TOKENS, outputUpper)
        THEN IF Truthy(amount)
             THEN Returned(JupiterBase \o
                    <<Lit("/"), Lit(Lookup(COMMON_TOKENS, inputUpper)),
                      Lit("/"), Lit(Lookup(COMMON_TOKENS, outputUpper)),
                      Lit("/"), Interp(amount)>>)
             ELSE Returned(JupiterBase \o
                    <<Lit("/"), Lit(inputUpper), Lit("-"), Lit(outputUpper)>>)
        ELSE LET inputMint == resolveTokenMint(inputToken[2])
                 outputMint == resolveTokenMint(outputToken[2])
             IN  IF Truthy(amount)
                 THEN Returned(JupiterBase \o
                        <<Lit("/"), Lit(inputMint), Lit("/"), Lit(outputMint),
                          Lit("/"), Interp(amount)>>)
                 ELSE Returned(JupiterBase \o
                        <<Lit("/"), Lit(inputMint), Lit("-"), Lit(outputMint)>>)

\* buildRaydiumSwapUrl(inputMint, outputMint, amount)
buildRaydiumSwapUrl(inputMint, outputMint, amount) ==
    IF ~IsStr(inputMint) \/ ~IsStr(outputMint)
    THEN Thrown("TypeError")
    ELSE Returned(<<HttpsTok, Lit("share.raydium.io"), Lit("/dialect/actions/swap/tx"),
                    Lit("?inputMint="), Lit(resolveTokenMint(inputMint[2])),
                    Lit("&outputMint="), Lit(resolveTokenMint(outputMint[2])),
                    Lit("&amount="), Interp(amount)>>)

KaminoLendBase(vaultSlug, verb) ==
    <<HttpsTok, Lit("kamino.dial.to"), Lit("/api/v0/lend/"), Interp(vaultSlug), Lit(verb)>>

WithAmount(base, amount) ==
    IF Truthy(amount) THEN base \o <<Lit("?amount="), Interp(amount)>> ELSE base

\* buildKaminoDepositUrl(vaultSlug, amount?)
buildKaminoDepositUrl(vaultSlug, amount) ==
    Returned(WithAmount(KaminoLendBase(vaultSlug, "/deposit"), amount))

\* buildKaminoWithdrawUrl(vaultSlug, amount?)
buildKaminoWithdrawUrl(vaultSlug, amount) ==
    Returned(WithAmount(KaminoLendBase(vaultSlug, "/withdraw"), amount))

\* buildJitoStakeUrl(amount?)
buildJitoStakeUrl(amount) ==
    IF Truthy(amount)
    THEN Returned(<<HttpsTok, Lit("jito.network"), Lit("/stake/amount/"), Interp(amount)>>)
    ELSE Returned(<<HttpsTok, Lit("jito.network"), Lit("/stake")>>)

\* buildMagicEdenBuyUrl(nftMint)
buildMagicEdenBuyUrl(nftMint) ==
    Returned(<<HttpsTok, Lit("api-mainnet.magiceden.dev"), Lit("/actions/buyNow/"),
               Interp(nftMint)>>)

\* buildTensorBuyFloorUrl(collection)
buildTensorBuyFloorUrl(collection) ==
    Returned(<<HttpsTok, Lit("tensor.dial.to"), Lit("/buy-floor/"), Interp(collection)>>)

\* The library called once.
NoCall == [fn |-> "none", args |-> << >>, fetched |-> << >>, out |-> Returned(Undefined)]

Mints == {COMMON_TOKENS[i][2] : i \in 1 .. Len(COMMON_TOKENS)}
UnknownMint == "NotAToken11111111111111111111111111111111"

\* Texts resolveTokenMint is called with: every symbol of the table, symbols
\* in lower case, every mint of the table, and texts that are neither.
TokenTexts ==
    Keys(COMMON_TOKENS) \cup Mints \cup {"sol", "usdc", "jitosol", UnknownMint, ""}

\* Token arguments of the swap builders.
SwapSymbols == {"SOL", "USDC", "jitoSOL", "BONK"}
SwapTokens ==
    {Str(s) : s \in SwapSymbols}
    \cup {Str(Lookup(COMMON_TOKENS, s)) : s \in SwapSymbols}
    \cup {Str(""), Undefined}

\* Amount arguments: left out, or a number.
MaxAmount == 2
Amounts == {Undefined} \cup {Num(n) : n \in 0 .. MaxAmount}

VaultSlugs == {Str("usdc-prime"), Str("jitosol-main"), Str(""), Undefined}
NftMints == {Str("NftMint1111"), Str(""), Undefined}
Collections == {Str("madlads"), Str(""), Undefined}

Apply(fn, args, out) ==
    /\ lib.fn = "none"
    /\ lib' = [fn |-> fn, args |-> args, fetched |-> << >>, out |-> out]
    /\ UNCHANGED <<cliVars, regVars, resolver>>

CallResolveTokenMint(s) ==
    Apply("resolveTokenMint", <<Str(s)>>, Returned(Str(resolveTokenMint(s))))

CallJupiterSwapUrl(i, o, a) ==
    Apply("buildJupiterSwapUrl", <<i, o, a>>, buildJupiterSwapUrl(i, o, a))

CallRaydiumSwapUrl(i, o, a) ==
    Apply("buildRaydiumSwapUrl", <<i, o, a>>, buildRaydiumSwapUrl(i, o, a))

CallKaminoDepositUrl(v, a) ==
    Apply("buildKaminoDepositUrl", <<v, a>>, buildKaminoDepositUrl(v, a))

CallKaminoWithdrawUrl(v, a) ==
    Apply("buildKaminoWithdrawUrl", <<v, a>>, buildKaminoWithdrawUrl(v, a))

CallJitoStakeUrl(a) ==
    Apply("buildJitoStakeUrl", <<a>>, buildJitoStakeUrl(a))

CallMagicEdenBuyUrl(m) ==
    Apply("buildMagicEdenBuyUrl", <<m>>, buildMagicEdenBuyUrl(m))

CallTensorBuyFloorUrl(c) ==
    Apply("buildTensorBuyFloorUrl", <<c>>, buildTensorBuyFloorUrl(c))
----------------------------------------------------------------------------
(* MarketsClient                                                           *)

\* A DialectMarket, by the fields findBestYield reads.
Market(id, provider, apy, tvl) == <<id, provider, apy, tvl>>
Id(m) == m[1]
Provider(m) == m[2]
DepositApy(m) == m[3]
TotalDepositUsd(m) == m[4]

\* An array argument.
Arr(S) == <<"array", S>>

\* The markets the API can answer with: ids are distinct, the provider, the
\* deposit APY and the deposited total are whatever the server sends.
MaxMarkets == 2
Providers == {"kamino", "lulo"}
Apys == {-1, 0, 2}
Tvls == {0, 5}
MarketsOf(id) == {Market(id, p, a, t) : p \in Providers, a \in Apys, t \in Tvls}
MarketLists ==
    {<< >>}
    \cup {<<m>> : m \in MarketsOf(1)}
    \cup {<<m, n>> : m \in MarketsOf(1), n \in MarketsOf(MaxMarkets)}

\* The options of findBestYield: each filter left out or supplied.
YieldOptions ==
    {<<a, t, p>> : a \in {Undefined, Num(0), Num(1)},
                   t \in {Undefined, Num(0), Num(5)},
                   p \in {Undefined, Arr({}), Arr({"kamino"})}}
MinApy(o) == o[1]
MinTvl(o) == o[2]
ProvidersOf(o) == o[3]

\* Lines 193-198: the filter callback.
Keep(m, o) ==
    /\ ~(Truthy(MinApy(o)) /\ DepositApy(m) < MinApy(o)[2])
    /\ ~(Truthy(MinTvl(o)) /\ TotalDepositUsd(m) < MinTvl(o)[2])
    /\ ~(Truthy(ProvidersOf(o)) /\ Provider(m) \notin ProvidersOf(o)[2])

\* Line 199: Array.prototype.sort with (a, b) => b.depositApy - a.depositApy:
\* a stable sort by non-increasing depositApy.
RECURSIVE SortByApy(_)
Insert(sorted, m) ==
    LET before == SelectSeq(sorted, LAMBDA x : DepositApy(x) >= DepositApy(m))
        after == SelectSeq(sorted, LAMBDA x : DepositApy(x) < DepositApy(m))
    IN  before \o <<m>> \o after

SortByApy(ms) ==
    IF ms = << >> THEN << >>
    ELSE Insert(SortByApy(SubSeq(ms, 1, Len(ms) - 1)), ms[Len(ms)])

\* Lines 124-130, 152-164: the URL of GET /markets with type and token.
MarketsUrl(token) ==
    <<HttpsTok, Lit("api.dialect.to"), Lit("/v1"), Lit("/markets"),
      Lit("?type="), Lit("yield"), Lit("&token="), Lit(token)>>

\* findBestYield(tokenSymbol, options) up to the await of fetch.
FindBestYield(token, o) ==
    /\ lib.fn = "none"
    /\ lib' = [fn |-> "findBestYield", args |-> <<Str(token), o>>,
               fetched |-> << >>, out |-> <<"pending">>]
    /\ requests' = Append(requests, Request("GET", MarketsUrl(token), EmptyObject))
    /\ UNCHANGED <<pc, cmd, url, opts, params, trusted, blinkTx, calls, stdout,
                   stderr, settled, exited, exitCode, regVars, resolver>>

\* The API answers: a response that is not ok makes fetch throw, a response
\* that is ok holds the markets, which are filtered and sorted.
MarketsFetchReturn(ok, ms) ==
    /\ lib.fn = "findBestYield"
    /\ lib.out = <<"pending">>
    /\ lib' = IF ok
              THEN [lib EXCEPT !.fetched = ms,
                               !.out = Returned(SortByApy(
                                   SelectSeq(ms, LAMBDA m : Keep(m, lib.args[2]))))]
              ELSE [lib EXCEPT !.out = Thrown("Error")]
    /\ UNCHANGED <<cliVars, regVars, resolver>>

----------------------------------------------------------------------------
(* BlinksExecutor.inspect: the action list of an InspectResult             *)

\* A LinkedAction of the metadata, by its label and its href.
LinkedAction(label, href) == <<label, href>>
Label(a) == a[1]
Href(a) == a[2]

\* An href is absolute when it starts with a scheme, relative when it starts
\* with a path.
IsAbsolute(href) == Len(href) >= 1 /\ href[1] = HttpsTok

\* The origin of a canonical URL: its scheme and host.
Origin_wholeUrl(u) == u

Origin(u) == SubSeq(u, 1, 2)

\* A relative href joined against the origin of the canonical URL.
JoinHref(canonical, href) ==
    IF IsAbsolute(href) THEN href ELSE Origin(canonical) \o href

\* metadata.links.actions flattened into the action list of the result.
Flatten(canonical, actions) ==
    [i \in 1 .. Len(actions) |->
        LinkedAction(Label(actions[i]), JoinHref(canonical, Href(actions[i])))]

\* The hrefs an endpoint can send: relative ones, and absolute ones of its
\* own host or of another.
Hrefs ==
    {<<Lit("/stake"), Lit("?amount=1")>>,
     <<Lit("/api/v0/claim")>>,
     <<HttpsTok, Lit(TrustedHost), Lit("/stake"), Lit("?amount=1")>>,
     <<HttpsTok, Lit(UnknownHost), Lit("/stake")>>}

MaxActions == 2
ActionLists ==
    {<< >>}
    \cup {<<LinkedAction("first", h)>> : h \in Hrefs}
    \cup {<<LinkedAction("first", h), LinkedAction("second", g)>> : h \in Hrefs, g \in Hrefs}

\* inspect(x) with the endpoint answering metadata whose links.actions is
\* `actions`: the result holds the canonical URL and the flattened list; a
\* URL that does not resolve rejects.
InspectActions(x, actions) ==
    /\ lib.fn = "none"
    /\ Len(actions) <= MaxActions
    /\ LET r == parseActionUrl(x)
       IN  lib' = [fn |-> "inspect", args |-> <<x>>, fetched |-> actions,
                   out |-> IF r.ok THEN Returned(<<r.url, Flatten(r.url, actions)>>)
                           ELSE Thrown(r.err)]
    /\ UNCHANGED <<cliVars, regVars, resolver>>

----------------------------------------------------------------------------
(* The protocol commands, lines 705-1206                                   *)

ProtocolCommands ==
    {"kamino deposit", "kamino withdraw", "kamino borrow", "kamino repay",
     "kamino multiply", "jupiter swap", "lulo deposit", "lulo withdraw",
     "drift vault-deposit", "drift vault-withdraw", "sanctum stake",
     "jito stake", "raydium swap"}

SwapCommands == {"jupiter swap", "raydium swap"}

SOL_MINT == Lookup(COMMON_TOKENS, "SOL")
USDC_MINT == Lookup(COMMON_TOKENS, "USDC")
BONK_MINT == Lookup(COMMON_TOKENS, "BONK")

\* The options of a protocol command.  --input and --output (swaps only) are
\* mint addresses; --leverage (multiply only) is optional; the text options
\* that only fill a template (--vault, --market, --reserve, --coll-token,
\* --debt-token, --token, --lst) have one value each.
ProtocolOpts(c) ==
    [amount : {"1", "2"}, dryRun : BOOLEAN, walletOk : BOOLEAN,
     input : IF c \in SwapCommands THEN {SOL_MINT, USDC_MINT} ELSE {""},
     output : IF c \in SwapCommands THEN {BONK_MINT, USDC_MINT} ELSE {""},
     leverage : IF c = "kamino multiply" THEN {"", "3"} ELSE {""},
     vault : {"usdc-prime"}, market : {"Market1111"}, reserve : {"Reserve1111"},
     collToken : {SOL_MINT}, debtToken : {USDC_MINT}, token : {USDC_MINT},
     lst : {Lookup(COMMON_TOKENS, "jitoSOL")}]

\* TOKENS of lib/endpoints.js, a table from token symbols to mints: the
\* upper-case symbols of COMMON_TOKENS.  The commands are run with mint
\* addresses, which are keys of no symbol table in any case.
TOKENS == SelectSeq(COMMON_TOKENS, LAMBDA e : toUpperCase(e[1]) = e[1])

\* Lines 917-918, 1187: TOKENS[opt.toUpperCase()] || opt
TokenOrOption(opt) ==
    LET upper == toUpperCase(opt)
    IN  IF Has(TOKENS, upper) THEN Lookup(TOKENS, upper) ELSE opt

\* The blinkUrl template of each command.
ProtocolUrl(c, o) ==
    CASE c = "kamino deposit" ->
            <<HttpsTok, Lit("kamino.dial.to"), Lit("/api/v0/lend/"), Lit(o.vault),
              Lit("/deposit")>>
      [] c = "kamino withdraw" ->
            <<HttpsTok, Lit("kamino.dial.to"), Lit("/api/v0/lend/"), Lit(o.vault),
              Lit("/withdraw")>>
      [] c = "kamino borrow" ->
            <<HttpsTok, Lit("kamino.dial.to"), Lit("/api/v0/lending/reserve/"),
              Lit(o.market), Lit("/"), Lit(o.reserve), Lit("/borrow")>>
      [] c = "kamino repay" ->
            <<HttpsTok, Lit("kamino.dial.to"), Lit("/api/v0/lending/reserve/"),
              Lit(o.market), Lit("/"), Lit(o.reserve), Lit("/repay")>>
      [] c = "kamino multiply" ->
            <<HttpsTok, Lit("kamino.dial.to"), Lit("/api/v0/multiply/"),
              Lit(o.market), Lit("/deposit"), Lit("?collTokenMint="), Lit(o.collToken),
              Lit("&debtTokenMint="), Lit(o.debtToken)>>
      [] c = "jupiter swap" ->
            <<HttpsTok, Lit("worker.jup.ag"), Lit("/blinks/swap"),
              Lit("/"), Lit(TokenOrOption(o.input)),
              Lit("/"), Lit(TokenOrOption(o.output)),
              Lit("/"), Lit(o.amount)>>
      [] c = "lulo deposit" ->
            <<HttpsTok, Lit("lulo.dial.to"), Lit("/api/v0/deposit")>>
      [] c = "lulo withdraw" ->
            <<HttpsTok, Lit("lulo.dial.to"), Lit("/api/v0/withdraw")>>
      [] c = "drift vault-deposit" ->
            <<HttpsTok, Lit("app.drift.trade"), Lit("/api/actions/vault/deposit"),
              Lit("?vault="), Lit(o.vault)>>
      [] c = "drift vault-withdraw" ->
            <<HttpsTok, Lit("app.drift.trade"), Lit("/api/actions/vault/withdraw"),
              Lit("?vault="), Lit(o.vault)>>
      [] c = "sanctum stake" ->
            <<HttpsTok, Lit("sanctum.dial.to"), Lit("/api/v0/stake")>>
      [] c = "jito stake" ->
            <<HttpsTok, Lit("jito.dial.to"), Lit("/stake")>>
      [] c = "raydium swap" ->
            <<HttpsTok, Lit("share.raydium.io"), Lit("/dialect/actions/swap/tx"),
              Lit("?outputMint="), Lit(TokenOrOption(o.output)),
              Lit("&amount="), Lit(o.amount)>>

\* The params each command hands to getTransaction.
ProtocolParams(c, o) ==
    CASE c \in SwapCommands -> EmptyObject
      [] c \in {"lulo deposit", "lulo withdraw"} ->
            [k \in {"token", "amount"} |-> IF k = "token" THEN o.token ELSE o.amount]
      [] c = "sanctum stake" ->
            [k \in {"inputMint", "outputMint", "amount"} |->
                CASE k = "inputMint" -> SOL_MINT
                  [] k = "outputMint" -> o.lst
                  [] k = "amount" -> o.amount]
      [] c = "kamino multiply" /\ o.leverage # "" ->
            [k \in {"amount", "leverage"} |->
                IF k = "amount" THEN o.amount ELSE o.leverage]
      [] OTHER -> [k \in {"amount"} |-> o.amount]

\* A protocol command up to its await of getTransaction: the wallet is
\* loaded, the URL and the params are built, getTransaction is called.  There
\* is no trust check.
ProtocolStart(c, o) ==
    /\ pc = "idle"
    /\ cmd' = c
    /\ opts' = o
    /\ UNCHANGED <<trusted, blinkTx, stdout, settled, requests, regVars, resolver, lib>>
    /\ IF ~o.walletOk
       THEN /\ Catch("Wallet.fromEnv", "WalletError", calls, stderr)
            /\ UNCHANGED <<url, params>>
       ELSE /\ url' = ProtocolUrl(c, o)
            /\ params' = ProtocolParams(c, o)
            /\ pc' = "getTransaction"
            /\ calls' = Append(calls, Call("getTransaction"))
            /\ stderr' = Append(stderr, "info")
            /\ UNCHANGED <<exited, exitCode>>

\* getTransaction settles: the handler simulates with --dry-run and signs and
\* sends without; a rejection reaches the catch block.
ProtocolTxReturn(res) ==
    /\ pc = "awaitTx"
    /\ TxAnswer(res)
    /\ UNCHANGED <<cmd, url, opts, params, trusted, stdout, stderr, settled,
                   requests, regVars, resolver, lib>>
    /\ IF res = "ok"
       THEN /\ blinkTx' = "tx"
            /\ calls' = calls \o <<Ok("getTransaction"),
                                   Call(IF opts.dryRun THEN "simulate" ELSE "signAndSend")>>
            /\ pc' = IF opts.dryRun THEN "awaitSim" ELSE "awaitSend"
            /\ UNCHANGED <<exited, exitCode>>
       ELSE /\ Catch("getTransaction", res, Append(calls, Failed("getTransaction")), stderr)
            /\ UNCHANGED blinkTx

\* What follows the simulation of a dry run: the result is printed and the
\* handler returns.
AfterSimulation_send == "awaitSend"

AfterSimulation == "done"

\* simulate settles.
ProtocolSimReturn(res) ==
    /\ pc = "awaitSim"
    /\ UNCHANGED <<cmd, url, opts, params, trusted, blinkTx, settled, requests,
                   regVars, resolver, lib>>
    /\ IF res = "throws"
       THEN /\ Catch("simulate", "SimulationError",
                     Append(calls, Failed("simulate")), stderr)
            /\ UNCHANGED stdout
       ELSE /\ stdout' = [kind |-> "simulation", success |-> (res = "success"),
                          trusted |-> FALSE]
            /\ calls' = Append(calls, [op |-> "simulate",
                                       ev |-> IF res = "success" THEN "ok" ELSE "simfail"])
                        \o (IF AfterSimulation = "awaitSend"
                            THEN <<Call("signAndSend")>> ELSE << >>)
            /\ pc' = AfterSimulation
            /\ exited' = (AfterSimulation = "done")
            /\ UNCHANGED <<stderr, exitCode>>

\* signAndSend settles.
ProtocolSendReturn(res) ==
    /\ pc = "awaitSend"
    /\ UNCHANGED <<cmd, url, opts, params, trusted, blinkTx, settled, requests,
                   regVars, resolver, lib>>
    /\ IF res = "throws"
       THEN /\ Catch("signAndSend", "SendTransactionError",
                     Append(calls, Failed("signAndSend")), stderr)
            /\ UNCHANGED stdout
       ELSE /\ stdout' = [kind |-> "signature", success |-> TRUE, trusted |-> FALSE]
            /\ calls' = Append(calls, Ok("signAndSend"))
            /\ stderr' = Append(stderr, "confirmed!")
            /\ pc' = "done"
            /\ exited' = TRUE
            /\ UNCHANGED exitCode

----------------------------------------------------------------------------
(* Specifications                                                          *)

Init ==
    /\ pc = "idle"
    /\ cmd = "none"
    /\ url = NoUrl
    /\ opts = NoOpts
    /\ params = EmptyObject
    /\ trusted = FALSE
    /\ blinkTx = "none"
    /\ calls = << >>
    /\ stdout = NoOutput
    /\ stderr = << >>
    /\ settled = NotSettled
    /\ requests = << >>
    /\ exited = FALSE
    /\ exitCode = 0
    /\ reg \in [state : {"Uninitialized"}, version : {0}, expiry : {0},
                blocking : BOOLEAN, snapshot : {StaticSnapshot}]
    /\ now = 0
    /\ inflight = 0
    /\ started = << >>
    /\ completed = 0
    /\ caller = [c \in Callers |-> IdleCaller]
    /\ resolver = IdleResolver
    /\ lib = NoCall

\* One run of the CLI.
Next ==
    \/ \E u \in RawUrls, o \in ExecuteOpts : ExecuteStart(u, o)
    \/ BlinksGetTransaction
    \/ \E res \in TxAnswers : GetTransactionReturn(res)
    \/ \E res \in SimOutcomes : SimulateReturn(res)
    \/ \E res \in SendOutcomes : SignAndSendReturn(res)
    \/ \E u \in RawUrls : InspectStart(u)
    \/ BlinksInspect
    \/ \E res \in GetOutcomes : BlinksInspectSettle(res)
    \/ InspectReturn

Spec == Init /\ [][Next]_vars

\* Concurrent trust queries against one registry.
RegistryNext ==
    \/ \E c \in Callers : Query(c)
    \/ \E ok \in BOOLEAN : FetchReturn(ok)
    \/ \E c \in Callers : Answered(c)
    \/ Tick

RegistrySpec == Init /\ [][RegistryNext]_vars

\* One `execute` run while the registry is queried, refreshed and its
\* host-list fetch fails or succeeds.
OutageNext ==
    \/ \E E \in Urls, o \in ExecuteOpts : ExecuteStart(Plain(E), o)
    \/ BlinksGetTransaction
    \/ \E res \in TxOutcomes : GetTransactionReturn(res)
    \/ \E res \in SimOutcomes : SimulateReturn(res)
    \/ \E res \in SendOutcomes : SignAndSendReturn(res)
    \/ Query(1)
    \/ \E ok \in BOOLEAN : FetchReturn(ok)
    \/ Answered(1)
    \/ Tick

OutageSpec == Init /\ [][OutageNext]_vars

\* The whole public interface of the registry, clearRegistryCache included.
LifecycleNext ==
    \/ RegistryNext
    \/ ClearRegistryCache

LifecycleSpec == Init /\ [][LifecycleNext]_vars

\* The resolver applied to every way of writing a URL, and to its own result.
ResolverNext ==
    \/ \E x \in RawUrls : ResolveInput(x)
    \/ ResolveAgain

ResolverSpec == Init /\ [][ResolverNext]_vars

\* The exported token resolver and URL builders, each called once on every
\* argument list.
LibraryNext ==
    \/ \E s \in TokenTexts : CallResolveTokenMint(s)
    \/ \E i \in SwapTokens, o \in SwapTokens, a \in Amounts : CallJupiterSwapUrl(i, o, a)
    \/ \E i \in SwapTokens, o \in SwapTokens, a \in Amounts : CallRaydiumSwapUrl(i, o, a)
    \/ \E v \in VaultSlugs, a \in Amounts : CallKaminoDepositUrl(v, a)
    \/ \E v \in VaultSlugs, a \in Amounts : CallKaminoWithdrawUrl(v, a)
    \/ \E a \in Amounts : CallJitoStakeUrl(a)
    \/ \E m \in NftMints : CallMagicEdenBuyUrl(m)
    \/ \E c \in Collections : CallTensorBuyFloorUrl(c)

LibrarySpec == Init /\ [][LibraryNext]_vars

\* MarketsClient.findBestYield against every answer of the markets API.
MarketsNext ==
    \/ \E t \in SwapSymbols, o \in YieldOptions : FindBestYield(t, o)
    \/ \E ok \in BOOLEAN, ms \in MarketLists :
           (ok \/ ms = << >>) /\ MarketsFetchReturn(ok, ms)

MarketsSpec == Init /\ [][MarketsNext]_vars

\* One run of a protocol command.
ProtocolNext ==
    \/ \E c \in ProtocolCommands : \E o \in ProtocolOpts(c) : ProtocolStart(c, o)
    \/ BlinksGetTransaction
    \/ \E res \in TxOutcomes : ProtocolTxReturn(res)
    \/ \E res \in SimOutcomes : ProtocolSimReturn(res)
    \/ \E res \in SendOutcomes : ProtocolSendReturn(res)

ProtocolSpec == Init /\ [][ProtocolNext]_vars

\* BlinksExecutor.inspect on every way of writing a URL and every action
\* list the endpoint can answer with.
InspectResultNext ==
    \E x \in RawUrls, actions \in ActionLists : InspectActions(x, actions)

InspectResultSpec == Init /\ [][InspectResultNext]_vars


----------------------------------------------------------------------------
(* Claims about `execute` and `inspect`                                    *)

\* The request passes the checks made before the trust check: the wallet
\* loads and the --params text parses.
ValidRequest == opts.walletOk /\ (opts.params.given => opts.params.valid)

InStderr(line) == \E i \in 1 .. Len(stderr) : stderr[i] = line

\* Position of the first occurrence, which must exist, comes before another.
Before(a, b) == IndexOf(calls, a) # 0 /\ IndexOf(calls, a) < IndexOf(calls, b)

\* C1: an `execute` invocation with --dry-run never calls signAndSend,
\* whatever the trust check, getTransaction and simulate answer; the only
\* collaborator it calls after getTransaction is simulate.
C1_DryRunNeverSubmits ==
    (cmd = "execute" /\ opts.dryRun) =>
        /\ ~Called("signAndSend")
        /\ pc # "awaitSend"
        /\ (blinkTx # "none" => Called("simulate"))

C1_Witness ==
    /\ cmd = "execute" /\ opts.dryRun /\ exited
    /\ Count(calls, Ok("simulate")) = 1
    /\ StatusOf(url) = "Trusted"

\* C2: `execute` on a host of the malicious list fails with
\* UntrustedHostBlocked, and no getTransaction (the POST), simulate or
\* signAndSend call is made in that invocation.
C2_MaliciousBlocked ==
    (cmd = "execute" /\ StatusOf(url) = "Malicious") =>
        /\ ~Called("getTransaction")
        /\ ~Called("simulate")
        /\ ~Called("signAndSend")
        /\ (exited => exitCode = 1)
        /\ (exited /\ ValidRequest => InStderr("UntrustedHostBlocked"))

\* C3: within one `execute` invocation getTransaction is called only after
\* the trust check has answered, and simulate or signAndSend is called only
\* after getTransaction has resolved.
C3_StepsInOrder ==
    cmd = "execute" =>
        /\ Called("getTransaction") =>
               Before(Ok("isTrustedHost"), Call("getTransaction"))
        /\ \A op \in {"simulate", "signAndSend"} :
               Called(op) => Before(Ok("getTransaction"), Call(op))

C3_Witness ==
    /\ cmd = "execute" /\ pc = "awaitSend"
    /\ calls = <<Call("isTrustedHost"), Ok("isTrustedHost"), Call("getTransaction"),
                 Ok("getTransaction"), Call("signAndSend")>>

\* C4: when getTransaction fails or times out the invocation stops there with
\* that error and exit code 1, and neither simulate nor signAndSend is called;
\* a simulation that failed is never followed by signAndSend.
C4_FailureStopsPipeline ==
    cmd = "execute" =>
        /\ Count(calls, Failed("getTransaction")) > 0 =>
               /\ ~Called("simulate") /\ ~Called("signAndSend")
               /\ blinkTx = "none"
               /\ exited /\ exitCode = 1
               /\ \E e \in TxAnswers \ {"ok"} : InStderr(e)
        /\ (\E i \in 1 .. Len(calls) :
                calls[i].op = "simulate" /\ calls[i].ev \in {"fail", "simfail"}) =>
               ~Called("signAndSend") /\ pc = "done"

C4_Witness ==
    /\ cmd = "execute" /\ ~opts.dryRun /\ exited
    /\ Len(calls) > 0
    /\ calls[Len(calls)] = Failed("getTransaction")
    /\ InStderr("ActionTimeoutError")

\* C5: `execute` without --dry-run never calls simulate; once the
\* transaction is there exactly one of simulate and signAndSend is called,
\* and the dryRun flag alone decides which.
C5_ExactlyOneOfSimulateSubmit ==
    cmd = "execute" =>
        /\ ~opts.dryRun => ~Called("simulate")
        /\ Called("simulate") => opts.dryRun
        /\ Called("signAndSend") => ~opts.dryRun
        /\ blinkTx # "none" =>
               Count(calls, Call("simulate")) + Count(calls, Call("signAndSend")) = 1

C5_Witness ==
    /\ cmd = "execute" /\ ~opts.dryRun /\ exited /\ exitCode = 0
    /\ Count(calls, Ok("signAndSend")) = 1
    /\ ~Called("simulate")

\* C6: one `execute` invocation calls getTransaction at most once and
\* signAndSend at most once, and after either has failed no further
\* collaborator call is made.
C6_NoRetry ==
    cmd = "execute" =>
        /\ Count(calls, Call("getTransaction")) <= 1
        /\ Count(calls, Call("signAndSend")) <= 1
        /\ \A op \in {"getTransaction", "signAndSend"} :
               Count(calls, Failed(op)) > 0 =>
                   calls[Len(calls)] = Failed(op) /\ exited

C6_Witness ==
    /\ cmd = "execute" /\ exited /\ exitCode = 1
    /\ Len(calls) > 0
    /\ calls[Len(calls)] = Failed("signAndSend")
    /\ Count(calls, Call("getTransaction")) = 1

\* C7: `execute` on a host that is neither trusted nor malicious is not
\* stopped by the trust check: a valid request goes on to getTransaction,
\* and a run that ends with a result gives trusted = false after a warning.
C7_UnknownHostProceeds ==
    (cmd = "execute" /\ StatusOf(url) = "Unknown" /\ ValidRequest) =>
        /\ Called("getTransaction")
        /\ ~InStderr("UntrustedHostBlocked")
        /\ InStderr("Warning: not a trusted host")
        /\ stdout.kind # "none" => ~stdout.trusted

C7_Witness ==
    /\ cmd = "execute" /\ StatusOf(url) = "Unknown"
    /\ exited /\ exitCode = 0
    /\ stdout = [kind |-> "signature", success |-> TRUE, trusted |-> FALSE]
    /\ InStderr("Warning: not a trusted host")

\* C8: `inspect` calls neither getTransaction, simulate nor signAndSend, and
\* on a host of the malicious list it still issues the GET and, when the GET
\* succeeds, prints a result with trusted = false and ends with exit code 0.
C8_InspectReadOnly ==
    cmd = "inspect" =>
        /\ \A op \in {"getTransaction", "simulate", "signAndSend"} : ~Called(op)
        /\ blinkTx = "none"
        /\ ~InStderr("UntrustedHostBlocked")
        /\ StatusOf(url) = "Malicious" =>
               /\ pc \notin {"idle", "awaitInspect"} => Called("GET")
               /\ (exited /\ settled.ok) =>
                      /\ exitCode = 0
                      /\ stdout = [kind |-> "inspect", success |-> TRUE,
                                   trusted |-> FALSE]

C8_Witness ==
    /\ cmd = "inspect" /\ StatusOf(url) = "Malicious"
    /\ exited /\ exitCode = 0
    /\ stdout.kind = "inspect" /\ ~stdout.trusted
    /\ Count(calls, Ok("GET")) = 1

\* Some step of the invocation surfaced an error: a collaborator call
\* rejected, the wallet or the --params text was refused, or the simulation
\* reported a failure.
StepFailed ==
    \/ ~ValidRequest
    \/ \E i \in 1 .. Len(calls) : calls[i].ev \in {"fail", "simfail"}

\* C9: an `inspect` or `execute` invocation ends with exit code 0 only if
\* every step succeeded, and with exit code 1 whenever a step surfaced an
\* error.
C9_ExitCodeReflectsErrors ==
    exited => (exitCode = 0 <=> ~StepFailed) /\ (exitCode = 1 <=> StepFailed)


----------------------------------------------------------------------------
(* Claims about the Trust Registry                                         *)

Waiting == {c \in Callers : caller[c].pc = "waiting"}

\* C10: single-flight.  However many trust queries arrive before the first
\* host list is there, one fetch is started and every one of them waits for
\* that fetch; and for each expired snapshot one refresh is started, however
\* many queries arrive while it is in flight.
C10_SingleFlight ==
    /\ inflight <= 1
    /\ inflight = Len(started) - completed
    /\ completed = 0 => Len(started) <= 1
    /\ \A i, j \in 1 .. Len(started) : started[i] = started[j] => i = j
    /\ \A c \in Waiting : inflight = 1 /\ caller[c].servedBy = Len(started)
    /\ reg.state = "Loading" <=> (completed = 0 /\ inflight = 1)

C10_Witness ==
    /\ completed >= 1
    /\ reg.state = "Ready" /\ now >= reg.expiry
    /\ Waiting = Callers
    /\ Len(started) = completed + 1

\* A whole snapshot: an entry for every host, all of one fetch.
WholeSnapshot(view) ==
    /\ DOMAIN view = Hosts
    /\ \A h, g \in Hosts : view[h] = view[g]

AnsweredCallers == {c \in Callers : caller[c].pc = "answered"}

\* C11: every trust query is answered from one whole snapshot.  A query
\* answered while a refresh is in flight reads the stale snapshot, with no
\* entry of the list being fetched; no answer mixes entries of two lists.
C11_AnswersFromOneSnapshot ==
    /\ WholeSnapshot(reg.snapshot)
    /\ \A c \in AnsweredCallers :
           /\ WholeSnapshot(caller[c].view)
           /\ caller[c].during > 0 =>
                  \A h \in Hosts : caller[c].view[h] = caller[c].servedBy
                                    /\ caller[c].view[h] < caller[c].during

C11_Witness ==
    \E c \in AnsweredCallers :
        /\ caller[c].during = 2
        /\ inflight = 1
        /\ caller[c].view = [h \in Hosts |-> 1]

\* The last host-list fetch failed.
LastFetchFailed == reg.state = "Ready" /\ completed > 0 /\ reg.version < completed

\* C12: a failure of the host-list fetch makes neither a trust query nor
\* `execute` fail.  The query is answered from the last-known-good snapshot
\* or, when there is none, from the built-in static list; `execute` on a host
\* that is not known to be malicious still goes on to fetch the transaction.
C12_OutageNeverFails ==
    /\ \A c \in Callers :
           /\ caller[c].pc # "rejected"
           /\ caller[c].pc = "answered" =>
                  /\ WholeSnapshot(caller[c].view)
                  /\ \A h \in Hosts : caller[c].view[h] <= reg.version
    /\ (cmd = "execute" /\ ValidRequest /\ StatusOf(url) \in {"Trusted", "Unknown"}) =>
           /\ Called("getTransaction")
           /\ ~InStderr("UntrustedHostBlocked")
           /\ pc # "getTransaction" => Len(requests) = 1

C12_Witness ==
    /\ LastFetchFailed /\ reg.version = 0
    /\ caller[1].pc = "answered" /\ caller[1].view = StaticSnapshot
    /\ caller[1].servedBy = 1
    /\ cmd = "execute" /\ StatusOf(url) = "Unknown"
    /\ Len(requests) = 1

Rank(state) ==
    CASE state = "Uninitialized" -> 0
      [] state = "Loading" -> 1
      [] state = "Ready" -> 2

\* C13 (as written): after any sequence of operations of the public
\* interface, a registry that has reached Ready never leaves Ready and never
\* loses its snapshot.
C13_ReadyForever ==
    [][reg.state = "Ready" =>
           reg'.state = "Ready" /\ reg'.version >= reg.version]_vars

\* C13 (amended): the lifecycle only moves forward, Uninitialized -> Loading
\* -> Ready, and a Ready registry keeps a snapshot at least as new as the one
\* it has, under every operation of the public interface except
\* clearRegistryCache, which returns the registry to Uninitialized.
C13_ForwardUnlessCleared ==
    [][IF ClearRegistryCache
       THEN reg'.state = "Uninitialized"
       ELSE /\ Rank(reg'.state) >= Rank(reg.state)
            /\ reg.state = "Ready" => reg'.version >= reg.version
            /\ \A h \in Hosts : reg'.snapshot[h] = reg'.version]_vars

C13_Witness ==
    /\ LastFetchFailed
    /\ reg.version = 1
    /\ reg.snapshot = [h \in Hosts |-> 1]
    /\ completed = 2

----------------------------------------------------------------------------
(* Claims about the URL the pipeline works on                              *)

\* The trust check of the invocation has been made.
TrustDecided ==
    \/ cmd = "execute" /\ Count(calls, Ok("isTrustedHost")) > 0
    \/ cmd = "inspect" /\ Called("GET")

\* C14: the trusted flag of `inspect` and `execute` is a function of the
\* host of the URL and of the host list alone: whatever the path, the
\* parameters, the options and the answers of the endpoint and of the
\* simulation, the flag is true exactly when the host is on the trusted list.
C14_TrustedDependsOnHostOnly ==
    /\ TrustDecided => (trusted <=> StatusOf(url) = "Trusted")
    /\ stdout.kind # "none" => (stdout.trusted <=> StatusOf(url) = "Trusted")

C14_Witness ==
    /\ cmd = "execute" /\ StatusOf(url) = "Trusted"
    /\ url = Plain([host |-> TrustedHost, path |-> "/api/v0/lend/usdc-prime/deposit"])
    /\ params = [k \in {"amount"} |-> "7"]
    /\ stdout = [kind |-> "simulation", success |-> FALSE, trusted |-> TRUE]

C19_RequestsOnlyOnHttps ==
    /\ \A i \in 1 .. Len(requests) :
           IsHttpsUrl(requests[i].url) /\ ~HasMarker(requests[i].url)
    /\ (cmd # "none" /\ ~parseActionUrl(url).ok) =>
           /\ requests = << >>
           /\ ~Called("GET")
           /\ ~Called("simulate") /\ ~Called("signAndSend")
           /\ exited => exitCode = 1
           /\ (exited /\ ValidRequest) => InStderr(InvalidUrlKind)

C19_Witness ==
    /\ cmd = "execute" /\ exited /\ exitCode = 1
    /\ url = Raw("solana-action-http", [host |-> TrustedHost, path |-> "/stake"])
    /\ InStderr(InvalidUrlKind)
    /\ requests = << >>

\* C20: the `account` of the POST body is the account of the request, the
\* wallet address, for every params map, also one that has a key `account`;
\* every other key of params is in the body with its value.
C20_BodyAccountIsWallet ==
    \A i \in 1 .. Len(requests) :
        requests[i].method = "POST" =>
            /\ requests[i].body["account"] = WalletAddress
            /\ \A k \in DOMAIN params \ {"account"} :
                   k \in DOMAIN requests[i].body /\ requests[i].body[k] = params[k]

\* C21: an `execute` invocation whose wallet cannot be loaded, or whose
\* --params text cannot be parsed, ends with exit code 1 without any trust
\* check, transaction fetch, simulation or submission, and without any HTTP
\* request.
C21_ValidatedBeforeNetwork ==
    (cmd = "execute" /\ ~ValidRequest) =>
        /\ exited /\ exitCode = 1
        /\ calls = << >>
        /\ requests = << >>
        /\ blinkTx = "none"
        /\ stdout = NoOutput

C21_Witness ==
    /\ cmd = "execute"
    /\ opts.walletOk
    /\ opts.params.given /\ ~opts.params.valid
    /\ InStderr("SyntaxError")
    /\ exited /\ exitCode = 1
    /\ calls = << >>

\* The params map the options stand for: the keys of the --params object,
\* and `amount` when --amount is given; a key of --params carries the value
\* --params gives it, `amount` carries the --amount value otherwise.
ExpectedParams(p) ==
    LET o == opts
        fromJson == IF o.params.given THEN DOMAIN o.params.obj ELSE {}
        fromAmount == IF o.amount.given THEN {"amount"} ELSE {}
    IN  /\ DOMAIN p = fromJson \cup fromAmount
        /\ \A k \in DOMAIN p :
               p[k] = IF k \in fromJson THEN o.params.obj[k] ELSE o.amount.value

\* C29: in `execute` the params posted are the --amount option overlaid by
\* the keys of the --params object (a key of --params, `amount` included,
\* replaces the --amount value), keys absent from both are absent, and the
\* map is complete when the trust check and the transaction fetch start.
C29_ParamsOverlay ==
    (cmd = "execute" /\ ValidRequest) =>
        /\ ExpectedParams(params)
        /\ \A i \in 1 .. Len(requests) :
               requests[i].method = "POST" =>
                   /\ DOMAIN requests[i].body = DOMAIN params \cup {"account"}
                   /\ \A k \in DOMAIN params \ {"account"} :
                          requests[i].body[k] = params[k]

C29_Witness ==
    /\ cmd = "execute"
    /\ opts.amount.given
    /\ opts.params.given /\ opts.params.valid
    /\ "amount" \in DOMAIN opts.params.obj
    /\ opts.params.obj["amount"] # opts.amount.value
    /\ \E i \in 1 .. Len(requests) :
           /\ requests[i].method = "POST"
           /\ requests[i].body["amount"] = opts.params.obj["amount"]

----------------------------------------------------------------------------
(* Claims about the token table and the URL builders                       *)

Builders ==
    {"buildJupiterSwapUrl", "buildRaydiumSwapUrl", "buildKaminoDepositUrl",
     "buildKaminoWithdrawUrl", "buildJitoStakeUrl", "buildMagicEdenBuyUrl",
     "buildTensorBuyFloorUrl"}

\* The required template parameters of the call: the vault slug, the NFT
\* mint, the collection, the input and the output token.
RequiredArgs ==
    CASE lib.fn \in {"buildJupiterSwapUrl", "buildRaydiumSwapUrl"} ->
            {lib.args[1], lib.args[2]}
      [] lib.fn \in {"buildKaminoDepositUrl", "buildKaminoWithdrawUrl",
                     "buildMagicEdenBuyUrl", "buildTensorBuyFloorUrl"} ->
            {lib.args[1]}
      [] OTHER -> {}

Missing(v) == v = Undefined \/ v = Str("")

HasReturned == lib.out[1] = "return"

\* The URL holds a segment that is empty or the text `undefined`.
HasHole(u) == \E i \in 1 .. Len(u) : Text(u[i]) \in {"", "undefined"}

\* C22: a builder called with a required template parameter absent or empty
\* fails with MissingTemplateParameter, and no builder returns a URL holding
\* an empty or `undefined` segment.
C22_MissingParameterFails ==
    lib.fn \in Builders =>
        /\ (\E v \in RequiredArgs : Missing(v)) =>
               lib.out = Thrown("MissingTemplateParameter")
        /\ HasReturned => ~HasHole(lib.out[2])

\* The text is a symbol of the table when case is ignored.
IsSymbol(s) == \E k \in Keys(COMMON_TOKENS) : toUpperCase(k) = toUpperCase(s)

\* C23: resolveTokenMint(s) is COMMON_TOKENS[s] for every key s of the table,
\* the mixed-case keys jitoSOL, mSOL, bSOL and every token of
\* KAMINO_LEND_VAULTS included, and a text that is no symbol is returned
\* unchanged.
C23_ResolvesEveryKey ==
    lib.fn = "resolveTokenMint" =>
        LET s == lib.args[1][2]
        IN  /\ Has(COMMON_TOKENS, s) =>
                   lib.out = Returned(Str(Lookup(COMMON_TOKENS, s)))
            /\ ~IsSymbol(s) => lib.out = Returned(Str(s))

\* C24: buildJupiterSwapUrl called with two symbols of the table and an
\* amount returns what it returns for the two mints and that amount, the URL
\* https://worker.jup.ag/blinks/swap/<inputMint>/<outputMint>/<amount>.
C24_SymbolsAndMintsAgree ==
    (/\ lib.fn = "buildJupiterSwapUrl"
     /\ IsStr(lib.args[1]) /\ Has(COMMON_TOKENS, lib.args[1][2])
     /\ IsStr(lib.args[2]) /\ Has(COMMON_TOKENS, lib.args[2][2])
     /\ lib.args[3] # Undefined) =>
        LET inputMint == Lookup(COMMON_TOKENS, lib.args[1][2])
            outputMint == Lookup(COMMON_TOKENS, lib.args[2][2])
            amount == lib.args[3]
        IN  /\ lib.out = buildJupiterSwapUrl(Str(inputMint), Str(outputMint), amount)
            /\ lib.out = Returned(JupiterBase \o
                   <<Lit("/"), Lit(inputMint), Lit("/"), Lit(outputMint),
                     Lit("/"), Interp(amount)>>)

OptionalAmountBuilders ==
    {"buildJupiterSwapUrl", "buildKaminoDepositUrl", "buildKaminoWithdrawUrl",
     "buildJitoStakeUrl"}

\* The amount argument of the call (the last one).
AmountArg == lib.args[Len(lib.args)]

\* The URL ends with the amount, as a path segment or as the amount query.
CarriesAmount(u, amount) ==
    /\ u[Len(u)] = Interp(amount)
    /\ Text(u[Len(u) - 1]) \in {"/", "?amount=", "/stake/amount/"}

\* C27: the URL of a builder with an optional amount carries the amount
\* exactly when an amount argument is supplied, 0 included.
C27_AmountIffSupplied ==
    (lib.fn \in OptionalAmountBuilders /\ HasReturned) =>
        (CarriesAmount(lib.out[2], AmountArg) <=> AmountArg # Undefined)

\* Every filter the options supply is satisfied by the market.
SatisfiesFilters(m, o) ==
    /\ MinApy(o) # Undefined => DepositApy(m) >= MinApy(o)[2]
    /\ MinTvl(o) # Undefined => TotalDepositUsd(m) >= MinTvl(o)[2]
    /\ ProvidersOf(o) # Undefined => Provider(m) \in ProvidersOf(o)[2]

\* Every market of the list is a market of the other, and none is repeated.
SubList(sub, ms) ==
    /\ \A i \in 1 .. Len(sub) : \E j \in 1 .. Len(ms) : sub[i] = ms[j]
    /\ \A i, j \in 1 .. Len(sub) : Id(sub[i]) = Id(sub[j]) => i = j

NonIncreasingApy(ms) ==
    \A i \in 1 .. Len(ms) - 1 : DepositApy(ms[i]) >= DepositApy(ms[i + 1])

\* C30: findBestYield returns a sub-list of what listMarkets returned in
\* which every market satisfies every supplied filter (depositApy >= minApy,
\* totalDepositUsd >= minTvl, provider among providers; also for the values
\* 0 and the empty provider list), ordered by non-increasing depositApy, and
\* it issues exactly one HTTP request.
C30_BestYieldFilters ==
    (lib.fn = "findBestYield" /\ lib.out # <<"pending">> /\ HasReturned) =>
        /\ SubList(lib.out[2], lib.fetched)
        /\ \A i \in 1 .. Len(lib.out[2]) : SatisfiesFilters(lib.out[2][i], lib.args[2])
        /\ NonIncreasingApy(lib.out[2])
        /\ Len(requests) = 1

\* C25: in an InspectResult every action's href is absolute: a relative
\* href of the metadata is joined against the origin of the canonical URL, an
\* absolute href is kept unchanged, and the list has one entry per entry of
\* metadata.links.actions, in the same order.
C25_HrefsAbsolute ==
    (lib.fn = "inspect" /\ HasReturned) =>
        LET canonical == lib.out[2][1]
            result == lib.out[2][2]
            sent == lib.fetched
        IN  /\ Len(result) = Len(sent)
            /\ \A i \in 1 .. Len(sent) :
                   /\ Label(result[i]) = Label(sent[i])
                   /\ IsAbsolute(Href(result[i]))
                   /\ IsAbsolute(Href(sent[i])) => Href(result[i]) = Href(sent[i])
                   /\ ~IsAbsolute(Href(sent[i])) =>
                          Href(result[i]) =
                              <<HttpsTok, Lit(HostOf(canonical))>> \o Href(sent[i])

\* The scenario of the specification: /stake?amount=1 sent by
\* https://jito.dial.to/stake, next to an absolute href.
C25_Witness ==
    /\ lib.fn = "inspect" /\ HasReturned
    /\ lib.out[2][1] = <<HttpsTok, Lit(TrustedHost), PathTok("/stake")>>
    /\ Len(lib.fetched) = 2
    /\ Href(lib.fetched[1]) = <<Lit("/stake"), Lit("?amount=1")>>
    /\ Href(lib.out[2][2][1]) =
           <<HttpsTok, Lit(TrustedHost), Lit("/stake"), Lit("?amount=1")>>
    /\ IsAbsolute(Href(lib.fetched[2]))
    /\ Href(lib.out[2][2][2]) = Href(lib.fetched[2])

----------------------------------------------------------------------------
(* Claims about the protocol commands                                      *)

\* C26: every protocol command performs exactly one transaction fetch and
\* then exactly one of simulate / signAndSend: simulate and never signAndSend
\* with --dry-run, signAndSend and never simulate without; when the fetch
\* fails it performs neither and ends with exit code 1.
C26_ProtocolDryRun ==
    cmd \in ProtocolCommands =>
        /\ Count(calls, Call("getTransaction")) <= 1
        /\ Count(calls, Call("simulate")) + Count(calls, Call("signAndSend")) <= 1
        /\ Called("simulate") =>
               opts.dryRun /\ Before(Ok("getTransaction"), Call("simulate"))
        /\ Called("signAndSend") =>
               ~opts.dryRun /\ Before(Ok("getTransaction"), Call("signAndSend"))
        /\ Count(calls, Ok("getTransaction")) = 1 =>
               Count(calls, Call("simulate")) + Count(calls, Call("signAndSend")) = 1
        /\ Count(calls, Failed("getTransaction")) > 0 =>
               /\ ~Called("simulate") /\ ~Called("signAndSend")
               /\ exited /\ exitCode = 1
        /\ (exited /\ opts.walletOk) =>
               /\ Count(calls, Call("getTransaction")) = 1
               /\ Len(requests) = 1

C26_Witness ==
    /\ cmd = "raydium swap"
    /\ opts.dryRun
    /\ exited /\ exitCode = 0
    /\ calls = <<Call("getTransaction"), Ok("getTransaction"),
                 Call("simulate"), Ok("simulate")>>
    /\ stdout.kind = "simulation"

\* The URL the command posted to.
PostedUrl == requests[1].url

\* C28: the URL `raydium swap` posts to is buildRaydiumSwapUrl(input, output,
\* amount) of its options, so two invocations that differ only in --input
\* post to different URLs.
C28_RaydiumUrlFromBuilder ==
    (cmd = "raydium swap" /\ Len(requests) > 0) =>
        /\ Returned(PostedUrl) =
               buildRaydiumSwapUrl(Str(opts.input), Str(opts.output), Str(opts.amount))
        /\ \A i \in ProtocolOpts("raydium swap") :
               (i.input # opts.input /\ [i EXCEPT !.input = opts.input] = opts) =>
                   ProtocolUrl("raydium swap", i) # PostedUrl

----------------------------------------------------------------------------
(* Claims about the URL Resolver                                           *)

\* The resolver has been applied to the form f of endpoint E.
ResolvedFrom(f, E) == resolver.phase # "idle" /\ resolver.input = Raw(f, E)

RawParamForms == {"dial-raw", "dial-solana-action"}

C17_Idempotent ==
    resolver.phase = "resolvedAgain" =>
        resolver.second.ok /\ resolver.second.url = resolver.first.url

\* C18: an interstitial link whose action parameter resolves to another
\* interstitial link fails with InvalidUrlKind, and no input makes the
\* resolver follow more than one interstitial hop.
C18_OneHop ==
    /\ resolver.first.hops <= MaxHops
    /\ resolver.second.hops <= MaxHops
    /\ \A E \in Urls :
           ResolvedFrom("dial-dial", E) =>
               ~resolver.first.ok /\ resolver.first.err = InvalidUrlKind

C18_Witness ==
    \E E \in Urls :
        /\ ResolvedFrom("dial-dial", E)
        /\ resolver.first = Rejected(1)

====
